---- MODULE Spec2Model ----
(***************************************************************************)
(* Model of the VIN validation / decoding engine of core/vin.go.           *)
(*                                                                         *)
(* A Go string is modelled as a sequence of one-character strings; index   *)
(* i of the Go source is index i+1 here.  Two entry points are modelled:   *)
(* ValidateVIN (op = "validate") and BuildInfo (op = "build").  Each runs  *)
(* on an input fixed in Init and advances through the statements of the    *)
(* source, one action per statement group.                                 *)
(***************************************************************************)
EXTENDS Integers, Sequences, FiniteSets, TLC

\* ---------------------------------------------------------------- bounds
\* Inputs are at most VinLength + MaxExtra characters long.
MaxExtra == 1
\* Largest calendar year the clock is allowed to show.
LastNow == 2041

\* ------------------------------------------------------------- constants
VinLength == 17
UniqueLength == 11
Modulus == 11

Digits == <<"0", "1", "2", "3", "4", "5", "6", "7", "8", "9">>
DigitSet == {Digits[i] : i \in 1..10}

\* Faulty variant: the reserved set without Q.
ReservedCharsNoQ == {"I", "O"}
\* strings.ContainsAny(fullvin, "IOQ")
ReservedChars == {"I", "O", "Q"}

\* getCharacterMap()
digitMap ==
    ("A" :> 1) @@ ("B" :> 2) @@ ("C" :> 3) @@ ("D" :> 4) @@ ("E" :> 5) @@
    ("F" :> 6) @@ ("G" :> 7) @@ ("H" :> 8) @@ ("J" :> 1) @@ ("K" :> 2) @@
    ("L" :> 3) @@ ("M" :> 4) @@ ("N" :> 5) @@ ("P" :> 7) @@ ("R" :> 9) @@
    ("S" :> 2) @@ ("T" :> 3) @@ ("U" :> 4) @@ ("V" :> 5) @@ ("W" :> 6) @@
    ("X" :> 7) @@ ("Y" :> 8) @@ ("Z" :> 9)

\* Faulty variant: the check-digit slot counted with weight 1.
weightsSelfCounting == <<8, 7, 6, 5, 4, 3, 2, 10, 1, 9, 8, 7, 6, 5, 4, 3, 2>>
\* weights := []int{8, 7, 6, 5, 4, 3, 2, 10, 0, 9, 8, 7, 6, 5, 4, 3, 2}
weights == <<8, 7, 6, 5, 4, 3, 2, 10, 0, 9, 8, 7, 6, 5, 4, 3, 2>>

\* years := []int{1980, 2010}
years0 == <<1980, 2010>>

\* ----------------------------------------------------------- error values
Err(k, f, e) == [kind |-> k, found |-> f, expected |-> e]
Nil == Err("nil", "", "")
\* errors.New("not correct length")
LengthError == Err("not correct length", "", "")
\* errors.New("found illegal characters")
IllegalCharacterError == Err("found illegal characters", "", "")
\* fmt.Errorf("check digit %s is invalid for %s", checkDigit, score)
CheckDigitError(checkDigit, score) == Err("check digit is invalid", checkDigit, score)
\* errors.New("unable to get a weight")
WeightError == Err("unable to get a weight", "", "")
\* errors returned by the two lookup collaborators
ManufacturerNotFoundError == Err("manufacturer not found", "", "")
DescriptorNotFoundError == Err("descriptor not found", "", "")

\* ------------------------------------------------------------ strconv
\* strconv.Atoi on a one-character string: the digit's value, or -1 for err.
AtoiChar(c) == IF c \in DigitSet THEN (CHOOSE i \in 0..9 : Digits[i + 1] = c) ELSE -1

RECURSIVE DecimalValue(_)
DecimalValue(s) ==
    IF s = <<>> THEN 0
    ELSE 10 * DecimalValue(SubSeq(s, 1, Len(s) - 1)) + AtoiChar(s[Len(s)])

AllDigits(s) == \A i \in 1..Len(s) : s[i] \in DigitSet

\* strconv.Atoi: an optional sign followed by one or more decimal digits;
\* anything else is a syntax error and the value returned with it is 0.
Atoi(s) ==
    LET signed == Len(s) > 0 /\ s[1] \in {"+", "-"}
        body   == IF signed THEN SubSeq(s, 2, Len(s)) ELSE s
    IN  IF body = <<>> \/ ~AllDigits(body)
        THEN [val |-> 0, ok |-> FALSE]
        ELSE [val |-> IF signed /\ s[1] = "-" THEN 0 - DecimalValue(body)
                      ELSE DecimalValue(body),
              ok |-> TRUE]

\* strconv.Itoa for the remainders 0..9
Itoa(n) == Digits[n + 1]

\* ------------------------------------------------------ calculateScore
Panic == "panic"
PanicSum == -1

\* The body of the range loop of calculateScore, from position k on, with
\* the running sum in result.  PanicSum stands for panic(err) (a character
\* that is neither in digitMap nor a decimal digit) and for the index
\* out of range of weights[k].
RECURSIVE scoreLoop(_, _, _)
scoreLoop(fullvin, k, result) ==
    IF k > Len(fullvin) THEN result
    ELSE LET strVal == fullvin[k]
             value  == IF strVal \in DOMAIN digitMap THEN digitMap[strVal]
                       ELSE AtoiChar(strVal)
         IN  IF value < 0 \/ k > Len(weights) THEN PanicSum
             ELSE scoreLoop(fullvin, k + 1, result + value * weights[k])

calculateScore(fullvin) ==
    LET result == scoreLoop(fullvin, 1, 0)
    IN  IF result = PanicSum THEN Panic
        ELSE LET mod == result % Modulus
             IN  IF mod = 10 THEN "X" ELSE Itoa(mod)

\* ---------------------------------------------------------- ValidateVIN
ContainsAny(s, chars) == \E i \in 1..Len(s) : s[i] \in chars

\* Faulty variant: fullvin[7:8]
checkDigitOffByOne(fullvin) == fullvin[8]
\* checkDigit := fullvin[8:9]
checkDigit(fullvin) == fullvin[9]

\* ValidateVIN as a function of its argument: the error it returns, Nil for
\* success; panicked tells that calculateScore panicked instead.
ValidateVIN(fullvin) ==
    IF Len(fullvin) # VinLength THEN [err |-> LengthError, panicked |-> FALSE]
    ELSE IF ContainsAny(fullvin, ReservedChars)
         THEN [err |-> IllegalCharacterError, panicked |-> FALSE]
    ELSE LET sc == calculateScore(fullvin)
         IN  IF sc = Panic THEN [err |-> Nil, panicked |-> TRUE]
             ELSE IF checkDigit(fullvin) # sc
                  THEN [err |-> CheckDigitError(checkDigit(fullvin), sc),
                        panicked |-> FALSE]
             ELSE [err |-> Nil, panicked |-> FALSE]

\* ------------------------------------------------------ getUniqueSerial
\* serial, _ := strconv.Atoi(fullvin[11:]); return fullvin[:11], serial.
\* Both slice expressions panic when the string has fewer than 11 characters.
getUniqueSerialPanics(fullvin) == Len(fullvin) < UniqueLength

getUniqueSerial(fullvin) ==
    [Unique |-> SubSeq(fullvin, 1, UniqueLength),
     Serial |-> Atoi(SubSeq(fullvin, UniqueLength + 1, Len(fullvin))).val]

\* ------------------------------------------------------- manufactureYear
\* The model-year table: 30 characters, the offset of a character is its
\* place in this sequence, counted from 0.
ModelYearTable ==
    <<"A", "B", "C", "D", "E", "F", "G", "H", "J", "K", "L", "M", "N", "P", "R",
      "S", "T", "V", "W", "X", "Y", "1", "2", "3", "4", "5", "6", "7", "8", "9">>

InModelYearTable(digit) == \E i \in 1..Len(ModelYearTable) : ModelYearTable[i] = digit

\* getCharWeight: the offset of the character, 0 for a character without entry.
getCharWeight(digit) ==
    IF InModelYearTable(digit)
    THEN (CHOOSE i \in 1..Len(ModelYearTable) : ModelYearTable[i] = digit) - 1
    ELSE 0

\* The loop over years: appends v + charWeight when it is below maxYear.
RECURSIVE yearLoop(_, _, _, _)
yearLoop(i, charWeight, maxYear, result) ==
    IF i > Len(years0) THEN result
    ELSE LET year == years0[i] + charWeight
         IN  yearLoop(i + 1, charWeight, maxYear,
                      IF year < maxYear THEN Append(result, year) ELSE result)

\* manufactureYear(digit), with time.Now().Year() passed as maxYear.
manufactureYear(digit, maxYear) ==
    LET charWeight == getCharWeight(digit)
    IN  IF charWeight = 0 THEN [years |-> <<>>, err |-> WeightError]
        ELSE [years |-> yearLoop(1, charWeight, maxYear, <<>>), err |-> Nil]

\* ---------------------------------------------------------- collaborators
\* Records the lookup collaborators can return.
ZeroWMInfo == [Manufacturer |-> ""]
WMInfos == {[Manufacturer |-> "Honda"], [Manufacturer |-> "Acura"]}
ZeroVDSInfo == [Body |-> ""]
VDSInfos == {[Body |-> "Sedan"], [Body |-> "Coupe"]}

\* FindWMInfo(unique): a record, or the zero record with a not-found error.
FindWMInfoResults ==
    {[info |-> w, err |-> Nil] : w \in WMInfos}
        \cup {[info |-> ZeroWMInfo, err |-> ManufacturerNotFoundError]}

\* vds.FindVDSInfo(manufacturer, unique, years)
FindVDSInfoResults ==
    {[info |-> v, err |-> Nil] : v \in VDSInfos}
        \cup {[info |-> ZeroVDSInfo, err |-> DescriptorNotFoundError]}

\* ------------------------------------------------------------------ inputs
Golden == <<"1", "H", "G", "C", "M", "8", "2", "6", "3", "3", "A",
            "0", "0", "4", "3", "5", "2">>

Letters == {"A", "B", "C", "D", "E", "F", "G", "H", "I", "J", "K", "L", "M",
            "N", "O", "P", "Q", "R", "S", "T", "U", "V", "W", "X", "Y", "Z"}
\* Characters outside the upper-case alphanumeric range
OtherChars == {"a", "-", "+", "*"}
Alphabet == DigitSet \cup Letters \cup OtherChars
\* The characters a valid VIN is made of
ValidChars == DigitSet \cup (Letters \ {"I", "O", "Q"})

Subst(s, p, c) == [s EXCEPT ![p] = c]

\* Positions (counted from 1) that are varied: first character, model-year
\* character, first and last character of the serial.
VaryPos == {1, 10, 12, 17}
CheckCandidates == DigitSet \cup {"X", "Q", "a"}

OneEdit == {Subst(Golden, p, c) : p \in VaryPos, c \in Alphabet}
\* For validation every position is varied, together with the check digit.
AnyEdit == {Subst(Golden, p, c) : p \in 1..Len(Golden), c \in Alphabet}
TwoEdits == {Subst(s, 9, d) : s \in AnyEdit, d \in CheckCandidates}
Truncated == {SubSeq(s, 1, n) : s \in OneEdit, n \in {0, 1, 10, 11, 12, 16}}
RECURSIVE Extended(_)
Extended(n) ==
    IF n = 0 THEN {}
    ELSE LET shorter == IF n = 1 THEN OneEdit ELSE Extended(n - 1)
         IN  Extended(n - 1) \cup {Append(s, c) : s \in shorter, c \in {"0", "Q"}}

ValidateInputs == TwoEdits \cup Truncated \cup Extended(MaxExtra)
BuildInputs == OneEdit \cup Truncated \cup {Append(Golden, "0")}
CurrentYears ==
    {1979, 1980, 1981, 2000, 2001, 2005, 2009, 2010, 2011, 2025, 2039, 2040, LastNow}

\* ------------------------------------------------------------------- state
ZeroVIN == [Full |-> <<>>, Unique |-> <<>>, Serial |-> 0,
            WMInfo |-> ZeroWMInfo, VDSInfo |-> ZeroVDSInfo]

VARIABLES
    op,         \* the entry point that was called: "validate" or "build"
    fullvin,    \* its argument
    now,        \* time.Now().Year(); the year does not change during a call
    pc,         \* the statement the call is at
    outcome,    \* "running", "returned" or "panic"
    err,        \* the error returned (Nil for none)
    score,      \* ValidateVIN: the local score, <<>> before it is computed
    vin,        \* BuildInfo: the VIN object m / vin
    pass,       \* BuildInfo: 0 before newVIN, 1 in newVIN's deconstruct, 2 in BuildInfo's
    wmiInfo,    \* deconstruct: the local wmiInfo
    years,      \* deconstruct: the local years
    vdsInfo,    \* deconstruct: the record FindVDSInfo returned (assigned to _)
    calls,      \* the collaborator and resolver calls made so far, in order
    result      \* BuildInfo: <<>> for a nil *VIN, <<v>> for the VIN returned

vars == <<op, fullvin, now, pc, outcome, err, score, vin, pass, wmiInfo, years,
          vdsInfo, calls, result>>

Init ==
    /\ op \in {"validate", "build"}
    /\ fullvin \in (IF op = "validate" THEN ValidateInputs ELSE BuildInputs)
    /\ now \in (IF op = "validate" THEN {LastNow} ELSE CurrentYears)
    /\ pc = IF op = "validate" THEN "v_len" ELSE "b_new"
    /\ outcome = "running"
    /\ err = Nil
    /\ score = <<>>
    /\ vin = ZeroVIN
    /\ pass = 0
    /\ wmiInfo = ZeroWMInfo
    /\ years = <<>>
    /\ vdsInfo = ZeroVDSInfo
    /\ calls = <<>>
    /\ result = <<>>

buildVars == <<vin, pass, wmiInfo, years, vdsInfo, calls, result>>

\* ------------------------------------------------------ ValidateVIN steps
\* if len(fullvin) != 17 { return errors.New("not correct length") }
ValidateLength ==
    /\ pc = "v_len"
    /\ IF Len(fullvin) # VinLength
       THEN /\ err' = LengthError
            /\ outcome' = "returned"
            /\ pc' = "done"
       ELSE /\ pc' = "v_chars"
            /\ UNCHANGED <<err, outcome>>
    /\ UNCHANGED <<op, fullvin, now, score>>
    /\ UNCHANGED buildVars

\* if strings.ContainsAny(fullvin, "IOQ") { return errors.New(...) }
ValidateChars ==
    /\ pc = "v_chars"
    /\ IF ContainsAny(fullvin, ReservedChars)
       THEN /\ err' = IllegalCharacterError
            /\ outcome' = "returned"
            /\ pc' = "done"
       ELSE /\ pc' = "v_score"
            /\ UNCHANGED <<err, outcome>>
    /\ UNCHANGED <<op, fullvin, now, score>>
    /\ UNCHANGED buildVars

\* score := calculateScore(fullvin); compare with checkDigit; return
ValidateScore ==
    /\ pc = "v_score"
    /\ LET sc == calculateScore(fullvin)
       IN  IF sc = Panic
           THEN /\ outcome' = "panic"
                /\ UNCHANGED <<err, score>>
           ELSE /\ score' = <<sc>>
                /\ outcome' = "returned"
                /\ err' = IF checkDigit(fullvin) # sc
                          THEN CheckDigitError(checkDigit(fullvin), sc)
                          ELSE Nil
    /\ pc' = "done"
    /\ UNCHANGED <<op, fullvin, now>>
    /\ UNCHANGED buildVars

\* -------------------------------------------------------- BuildInfo steps
Call(fn, e) == [fn |-> fn, err |-> e]

\* Faulty variant: the error check left out.
continueAlways(e, next) == next
\* Where deconstruct goes after a step that produced the error e:
\* "if err != nil { return err }" after FindWMInfo and after manufactureYear.
returnOnError(e, next) == IF e # Nil THEN "return" ELSE next

\* BuildInfo calls newVIN, which builds &VIN{Full: fullvin} and runs deconstruct.
NewVIN ==
    /\ pc = "b_new"
    /\ vin' = [ZeroVIN EXCEPT !.Full = fullvin]
    /\ pass' = 1
    /\ pc' = "d_split"
    /\ UNCHANGED <<op, fullvin, now, outcome, err, score, wmiInfo, years, vdsInfo,
                   calls, result>>

\* deconstruct: m.Unique, m.Serial = getUniqueSerial(m.Full)
Split ==
    /\ pc = "d_split"
    /\ IF getUniqueSerialPanics(vin.Full)
       THEN /\ outcome' = "panic"
            /\ pc' = "done"
            /\ UNCHANGED vin
       ELSE /\ vin' = [vin EXCEPT !.Unique = getUniqueSerial(vin.Full).Unique,
                                  !.Serial = getUniqueSerial(vin.Full).Serial]
            /\ pc' = "d_wmi"
            /\ UNCHANGED outcome
    /\ wmiInfo' = ZeroWMInfo
    /\ years' = <<>>
    /\ vdsInfo' = ZeroVDSInfo
    /\ UNCHANGED <<op, fullvin, now, err, score, pass, calls, result>>

\* deconstruct: wmiInfo, err := FindWMInfo(m.Unique); return err on failure,
\* else m.WMInfo = wmiInfo.  An error makes newVIN and BuildInfo return nil, err.
LookupWMI ==
    /\ pc = "d_wmi"
    /\ \E r \in FindWMInfoResults :
         /\ calls' = Append(calls, Call("FindWMInfo", r.err))
         /\ wmiInfo' = r.info
         /\ IF returnOnError(r.err, "d_year") = "return"
            THEN /\ err' = r.err
                 /\ outcome' = "returned"
                 /\ result' = <<>>
                 /\ pc' = "done"
                 /\ UNCHANGED vin
            ELSE /\ vin' = [vin EXCEPT !.WMInfo = r.info]
                 /\ pc' = "d_year"
                 /\ UNCHANGED <<err, outcome, result>>
    /\ UNCHANGED <<op, fullvin, now, score, pass, years, vdsInfo>>

\* deconstruct: years, err := manufactureYear(m.Full[9:10]); return err on failure
ResolveYears ==
    /\ pc = "d_year"
    /\ LET r == manufactureYear(vin.Full[10], now)
       IN  /\ calls' = Append(calls, Call("manufactureYear", r.err))
           /\ years' = r.years
           /\ IF returnOnError(r.err, "d_vds") = "return"
              THEN /\ err' = r.err
                   /\ outcome' = "returned"
                   /\ result' = <<>>
                   /\ pc' = "done"
              ELSE /\ pc' = "d_vds"
                   /\ UNCHANGED <<err, outcome, result>>
    /\ UNCHANGED <<op, fullvin, now, score, vin, pass, wmiInfo, vdsInfo>>

\* deconstruct: _, err = vds.FindVDSInfo(wmiInfo.Manufacturer, m.Unique, years);
\* return err.  After newVIN's deconstruct BuildInfo calls vin.deconstruct()
\* again; after that one it returns vin, nil.
LookupVDS ==
    /\ pc = "d_vds"
    /\ \E r \in FindVDSInfoResults :
         /\ calls' = Append(calls, Call("FindVDSInfo", r.err))
         /\ vdsInfo' = r.info
         /\ IF r.err # Nil
            THEN /\ err' = r.err
                 /\ outcome' = "returned"
                 /\ result' = <<>>
                 /\ pc' = "done"
                 /\ UNCHANGED pass
            ELSE IF pass = 1
            THEN /\ pass' = 2
                 /\ pc' = "d_split"
                 /\ UNCHANGED <<err, outcome, result>>
            ELSE /\ result' = <<vin>>
                 /\ outcome' = "returned"
                 /\ pc' = "done"
                 /\ UNCHANGED <<err, pass>>
    /\ UNCHANGED <<op, fullvin, now, score, vin, wmiInfo, years>>

Next ==
    \/ ValidateLength
    \/ ValidateChars
    \/ ValidateScore
    \/ NewVIN
    \/ Split
    \/ LookupWMI
    \/ ResolveYears
    \/ LookupVDS

Spec == Init /\ [][Next]_vars

\* ------------------------------------------------- reference definitions
\* The check character as the standard defines it, written independently of
\* the tables above: letters A..H count 1..8, J..R count 1..9, S..Z count
\* 2..9; the weight of position i (from 1) is 9-i up to 7, 10 at 8, 0 at 9
\* and 19-i from 10 on.
AlphabetOrder == <<"A", "B", "C", "D", "E", "F", "G", "H", "I", "J", "K", "L", "M",
                   "N", "O", "P", "Q", "R", "S", "T", "U", "V", "W", "X", "Y", "Z">>

RefValue(c) ==
    IF c \in DigitSet THEN CHOOSE d \in 0..9 : Digits[d + 1] = c
    ELSE LET n == CHOOSE i \in 1..26 : AlphabetOrder[i] = c
         IN  IF n <= 9 THEN n ELSE IF n <= 18 THEN n - 9 ELSE n - 17

RefWeight(i) == IF i <= 7 THEN 9 - i ELSE IF i = 8 THEN 10 ELSE IF i = 9 THEN 0 ELSE 19 - i

RECURSIVE RefSum(_, _)
RefSum(s, n) == IF n = 0 THEN 0 ELSE RefSum(s, n - 1) + RefValue(s[n]) * RefWeight(n)

RefCheck(s) ==
    LET r == RefSum(s, Len(s)) % 11
    IN  IF r = 10 THEN "X" ELSE CHOOSE c \in DigitSet : RefValue(c) = r

CheckChars == DigitSet \cup {"X"}
HasReserved(s) == \E i \in 1..Len(s) : s[i] \in {"I", "O", "Q"}
CharsetValid(s) == \A i \in 1..Len(s) : s[i] \in ValidChars
Unscorable(s) == \E i \in 1..Len(s) : s[i] \notin DigitSet \cup Letters

ValidateDone == op = "validate" /\ pc = "done"
BuildDone == op = "build" /\ pc = "done"
LastCall == calls[Len(calls)]
CountCalls(fn) == Cardinality({i \in 1..Len(calls) : calls[i].fn = fn})

\* ------------------------------------------------------------------ claims

\* C1: for every input that fails ValidateVIN, BuildInfo returns the
\* validator's error without calling FindWMInfo, manufactureYear or
\* FindVDSInfo, and it never panics (in particular on inputs shorter than 11
\* characters, which must yield the length error).
C1_DecodeReturnsValidatorError ==
    (BuildDone /\ ValidateVIN(fullvin).err # Nil)
        => /\ outcome = "returned"
           /\ err = ValidateVIN(fullvin).err
           /\ calls = <<>>

\* C2: when BuildInfo returns success the VIN it returns carries the input,
\* its 11-character prefix, the serial, the record FindWMInfo returned and
\* the record FindVDSInfo returned.
C2_DecodedVINFullyPopulated ==
    (BuildDone /\ outcome = "returned" /\ err = Nil)
        => /\ Len(result) = 1
           /\ result[1].Full = fullvin
           /\ result[1].Unique = SubSeq(fullvin, 1, 11)
           /\ result[1].Serial = getUniqueSerial(fullvin).Serial
           /\ result[1].WMInfo = wmiInfo
           /\ result[1].VDSInfo = vdsInfo

\* C3: for a model-year character with table offset o, manufactureYear
\* succeeds and returns, in ascending order, those of 1980+o and 2010+o that
\* are below the current year; it fails only for a character without entry.
C3_Expected(o, currentYear) ==
    SelectSeq(<<1980 + o, 2010 + o>>, LAMBDA y : y < currentYear)

C3_Offset(c) == (CHOOSE i \in 1..30 : ModelYearTable[i] = c) - 1

C3_ResolveYearsAllOffsets ==
    (op = "build" /\ calls # <<>> /\ LastCall.fn = "manufactureYear")
        => IF InModelYearTable(fullvin[10])
           THEN /\ LastCall.err = Nil
                /\ years = C3_Expected(C3_Offset(fullvin[10]), now)
           ELSE LastCall.err # Nil

\* C4: a 17-character string without I, O, Q that holds a character that is
\* neither a digit nor a letter makes ValidateVIN return a MappingError; it
\* does not panic.
C4_UnscorableIsMappingError ==
    (ValidateDone /\ Len(fullvin) = 17 /\ ~HasReserved(fullvin) /\ Unscorable(fullvin))
        => /\ outcome = "returned"
           /\ err.kind = "MappingError"

\* C5: ValidateVIN returns the length error for every string whose length is
\* not 17 (also when it holds I, O or Q), and the illegal-character error for
\* every string of length 17 that holds I, O or Q, whatever else it holds;
\* in both cases the check digit is not computed.
C5_GateOrder ==
    ValidateDone
        => /\ Len(fullvin) # 17
                => (err = LengthError /\ outcome = "returned" /\ score = <<>>)
           /\ (Len(fullvin) = 17 /\ HasReserved(fullvin))
                => (err = IllegalCharacterError /\ outcome = "returned" /\ score = <<>>)

\* C5 witness: a 17-character string with a reserved character and a
\* character that cannot be scored was rejected as illegal.
C5_Witness ==
    /\ ValidateDone
    /\ Len(fullvin) = 17
    /\ Unscorable(fullvin)
    /\ HasReserved(fullvin)
    /\ err = IllegalCharacterError

\* C6: on a 17-character string of digits and table letters ValidateVIN
\* succeeds exactly when the character at position 8 is the check character
\* of the string; any other character there yields the check-digit error
\* naming the found and the expected character, and putting the check
\* character at position 8 makes validation succeed.
C6_CheckDigitGate ==
    (ValidateDone /\ Len(fullvin) = 17 /\ CharsetValid(fullvin))
        => /\ outcome = "returned"
           /\ (err = Nil) <=> (fullvin[9] = RefCheck(fullvin))
           /\ err # Nil
                => err = Err("check digit is invalid", fullvin[9], RefCheck(fullvin))
           /\ ValidateVIN(Subst(fullvin, 9, RefCheck(fullvin)))
                = [err |-> Nil, panicked |-> FALSE]

\* C6 witness: a charset-valid string with a wrong character at position 8
\* was rejected with both characters named.
C6_Witness ==
    /\ ValidateDone
    /\ Len(fullvin) = 17
    /\ CharsetValid(fullvin)
    /\ err.kind = "check digit is invalid"
    /\ err.found = fullvin[9]
    /\ err.expected # err.found

\* C7: on a charset-valid 17-character string calculateScore returns the
\* reference check character (values times position weights, summed, modulo
\* 11, X for 10), which is one of 0..9, X and does not change when only the
\* character at position 8 changes; the golden string scores 3.
C7_ScoreIsReference ==
    (ValidateDone /\ Len(fullvin) = 17 /\ CharsetValid(fullvin))
        => /\ score = <<RefCheck(fullvin)>>
           /\ score[1] \in CheckChars
           /\ \A c \in ValidChars : calculateScore(Subst(fullvin, 9, c)) = score[1]
           /\ fullvin = Golden => score = <<"3">>

\* C7 witness: a charset-valid string whose remainder is 10 was scored X.
C7_Witness ==
    /\ ValidateDone
    /\ Len(fullvin) = 17
    /\ CharsetValid(fullvin)
    /\ score = <<"X">>
    /\ RefSum(fullvin, 17) % 11 = 10

C9_Parseable(tail) ==
    \/ AllDigits(tail) /\ tail # <<>>
    \/ Len(tail) > 1 /\ tail[1] = "+" /\ AllDigits(SubSeq(tail, 2, Len(tail)))

C9_DecomposeRoundTrip ==
    (op = "build" /\ Len(fullvin) = 17 /\ pc \in {"d_wmi", "d_year", "d_vds", "done"})
        => LET tail == SubSeq(fullvin, 12, 17)
           IN  /\ vin.Unique = SubSeq(fullvin, 1, 11)
               /\ AllDigits(tail) => vin.Serial = DecimalValue(tail)
               /\ vin.Serial >= 0
               /\ ~C9_Parseable(tail) => vin.Serial \notin 0..999999

\* C10: within one BuildInfo call FindWMInfo, manufactureYear and FindVDSInfo
\* are each called at most once.
C10_EachStageAtMostOnce ==
    op = "build"
        => /\ CountCalls("FindWMInfo") <= 1
           /\ CountCalls("manufactureYear") <= 1
           /\ CountCalls("FindVDSInfo") <= 1

====
